---- MODULE Spec2Model ----
(***************************************************************************)
(* Model of the Bilibili live-room poll loop: PollManager                  *)
(* (src/poll_manager.py), the persisted RoomStatus record (src/models.py)  *)
(* and the asyncio event loop that runs the loop task, the stop() callers  *)
(* and the awaited fetch / callback / sleep futures.                       *)
(*                                                                         *)
(* The event loop is single threaded: every step below is one callback of  *)
(* the loop, run to its next await.  Callbacks made ready are run in the   *)
(* order they were scheduled (call_soon is FIFO), which is the variable    *)
(* ready.                                                                  *)
(***************************************************************************)
EXTENDS Integers, Sequences, FiniteSets, TLC

\* ------------------------------------------------------------------ bounds
MaxTasks == 2          \* loop tasks created by start() in one process life
MaxStopCallers == 1    \* stop() calls that may be suspended at once

\* ------------------------------------------------------- program constants
DefaultCheckInterval == 10   \* conf.py: check_interval default
ReducedRetryCap == 30        \* poll_manager.py: min(config.check_interval, 30)

Tasks == 1..MaxTasks
StopIds == 1..MaxStopCallers
NoTask == 0                       \* self._task is None
LongInterval == 60            \* a configured interval above the retry cap
WatchedRoomId == 5            \* the room id the operator configured
Intervals == {DefaultCheckInterval, LongInterval}
ConfigRoomId == WatchedRoomId     \* config.room_id
ApiRoomIds == {0, ConfigRoomId}   \* data["room_id"]: missing/0, or the room
MissingKey == 0 - 1               \* the key is not in the payload
ApiLiveStatus == {MissingKey, 0, 1, 2}  \* data["live_status"]: 0 off, 1 live, 2 round

Min(a, b) == IF a <= b THEN a ELSE b

\* ------------------------------------------------------------ fetch results
\* What `await api.get_live_room_info(room_id)` produces for the tick.
\*   error   : ApiClientError raised (transport failure or "code" != 0)
\*   empty   : data["data"] is falsy ({} / None / [])
\*   nondict : data["data"] is truthy but not a dict
\*   dict    : a payload with the two keys the tick consumes
NoFut == [kind |-> "none", room_id |-> 0, live_status |-> 0]
FetchResults ==
    {[kind |-> k, room_id |-> 0, live_status |-> 0] : k \in {"error", "empty", "nondict"}}
    \cup [kind : {"dict"}, room_id : ApiRoomIds, live_status : ApiLiveStatus]
CbResults == {[kind |-> k, room_id |-> 0, live_status |-> 0] : k \in {"cb_ok", "cb_raise"}}

\* ------------------------------------------------------- persisted record
\* json.dump and json.load of the two fields of the record (models.py lines
\* 67-70 and 97-98): an int is written as its decimal literal, with a minus
\* sign when negative, and a bool as true / false.
RECURSIVE DigitsOf(_)
DigitsOf(n) == IF n < 10 THEN <<n>> ELSE DigitsOf(n \div 10) \o <<n % 10>>
JsonInt(n) == [neg |-> n < 0, digits |-> DigitsOf(IF n < 0 THEN 0 - n ELSE n)]
RECURSIVE ValueOf(_)
ValueOf(d) ==
    IF Len(d) = 0 THEN 0
    ELSE 10 * ValueOf(SubSeq(d, 1, Len(d) - 1)) + d[Len(d)]
ParseJsonInt(lit) == IF lit.neg THEN 0 - ValueOf(lit.digits) ELSE ValueOf(lit.digits)
\* Variant: the flag is written as Python prints it, not as JSON.
PyStrBool(b) == IF b THEN "True" ELSE "False"

JsonBool(b) == IF b THEN "true" ELSE "false"
JsonBoolLiterals == {"true", "false"}

\* The content of RoomStatus.json: no file, a file json.load or the model
\* validation rejects (empty, partial, not an object), or the text of a
\* dumped record.
AbsentFile == [kind |-> "absent", room_id |-> JsonInt(0), live_status |-> "false"]
CorruptFile == [kind |-> "corrupt", room_id |-> JsonInt(0), live_status |-> "false"]
JsonFile(r, l) == [kind |-> "json", room_id |-> JsonInt(r), live_status |-> JsonBool(l)]
Files == {AbsentFile, CorruptFile} \cup {JsonFile(r, l) : r \in ApiRoomIds, l \in BOOLEAN}

None == [some |-> FALSE, room_id |-> 0, live_status |-> FALSE]
Some(r, l) == [some |-> TRUE, room_id |-> r, live_status |-> l]

\* RoomStatus.load_from_json: None when the file does not exist, or when
\* reading / parsing / validation raises; otherwise the record.
\* Variant: the record is looked up at load_from_json's default path
\* (room_status.json), where save_to_json never wrote.
LoadFromDefaultPath(f) == None

LoadFromJson(f) ==
    IF f.kind = "json" /\ f.live_status \in JsonBoolLiterals
    THEN Some(ParseJsonInt(f.room_id), f.live_status = "true")
    ELSE None

\* RoomStatus.save_to_json: outcome is what the file system does.
\*   ok               : file holds the dumped record, returns True
\*   fail_before_open : mkdir / open raised, file untouched, returns False
\*   fail_after_open  : open("w") truncated the file and json.dump raised:
\*                      the file is left empty or partial, returns False
SaveOutcomes == {"ok", "fail_before_open", "fail_after_open"}
SaveToJson(status, old, outcome) ==
    CASE outcome = "ok" -> JsonFile(status.room_id, status.live_status)
      [] outcome = "fail_before_open" -> old
      [] outcome = "fail_after_open" -> CorruptFile
\* save_to_json's return value, lines 72-76; no outcome makes it raise.
SaveReturns(outcome) == outcome = "ok"

NoStatus == [room_id |-> 0, live_status |-> FALSE]
\* The statuses a caller may hand to save_to_json: any int, any bool.
MaxStoredRoomId == 12
StatusRoomIds == (0 - MaxStoredRoomId)..MaxStoredRoomId
Statuses == [room_id : StatusRoomIds, live_status : BOOLEAN]

\* One exercise of the store: an optional save_to_json(status), then a
\* load_from_json of the same path.
\*   pc: "idle" "saved" "loaded";  before: what a load returned at the start
NoStore == [pc |-> "idle", status |-> NoStatus, before |-> None, outcome |-> "none",
            ret |-> FALSE, loaded |-> None]

\* ------------------------------------------------------------- normalizer
\* PollManager._convert_to_room_info, the two fields the tick consumes.
\* room_id: a falsy id falls back to config.room_id.
\* live_status: bool(api_data.get('live_status', 0)).
ConvertRoomId(api_data) ==
    IF api_data.room_id = 0 THEN ConfigRoomId ELSE api_data.room_id
ConvertLiveStatus(api_data) ==
    IF api_data.live_status = MissingKey THEN FALSE ELSE api_data.live_status # 0
ConvertToRoomInfo(api_data) ==
    [room_id |-> ConvertRoomId(api_data), live_status |-> ConvertLiveStatus(api_data)]

\* The whole of _convert_to_room_info on a raw payload.  A raw JSON value is
\* a type tag and, where the type has one, a number:
\*   missing    : the key is not in the payload
\*   null       : None
\*   bool       : False (0) or True (1)
\*   int        : v
\*   str_int    : the decimal text of v, "-2" for v = -2
\*   str_empty  : ""
\*   str_other  : a non-empty text int() does not accept ("abc", "1.5")
\*   float      : v / 2 for an odd v, so 1.5 is v = 3 and -0.5 is v = -1
\*   inf        : float infinity, v = 1 or -1 (json.loads reads 1e999 and
\*                Infinity as such)
\*   nan        : float NaN
\*   list       : a non-empty list or dict
RawMagnitude == 2
Raw(t, v) == [t |-> t, v |-> v]
RawInts == (0 - RawMagnitude)..RawMagnitude
RawHalves == {k \in (1 - 2 * RawMagnitude)..(2 * RawMagnitude - 1) : k % 2 = 1}
RawValues ==
    {Raw("missing", 0), Raw("null", 0), Raw("bool", 0), Raw("bool", 1),
     Raw("str_empty", 0), Raw("str_other", 0), Raw("inf", 1), Raw("inf", 0 - 1),
     Raw("nan", 0), Raw("list", 0)}
    \cup {Raw("int", v) : v \in RawInts \cup {WatchedRoomId}}
    \cup {Raw("str_int", v) : v \in RawInts}
    \cup {Raw("float", k) : k \in RawHalves}

\* bool(x) / `not x` of a raw value.
Truthy(x) ==
    CASE x.t \in {"missing", "null", "str_empty"} -> FALSE
      [] x.t \in {"bool", "int"} -> x.v # 0
      [] OTHER -> TRUE

\* The builtin int(x): the value, or the exception it raises.  A float is
\* truncated toward zero.
IntOk(v) == [exc |-> "none", val |-> v]
IntRaises(e) == [exc |-> e, val |-> 0]
PyInt(x) ==
    CASE x.t \in {"int", "bool", "str_int"} -> IntOk(x.v)
      [] x.t = "float" -> IntOk(IF x.v >= 0 THEN x.v \div 2 ELSE 0 - ((0 - x.v) \div 2))
      [] x.t = "inf" -> IntRaises("OverflowError")
      [] x.t \in {"nan", "str_empty", "str_other"} -> IntRaises("ValueError")
      [] OTHER -> IntRaises("TypeError")

\* _safe_int_convert(api_data.get(key, 0)), lines 239-255: None gives the
\* default, ValueError and TypeError give the default, anything else int()
\* raises leaves the function.
SafeIntDefault == 0
SafeIntConvert(x) ==
    IF x.t = "missing" THEN PyInt(Raw("int", 0))
    ELSE IF x.t = "null" THEN IntOk(SafeIntDefault)
    ELSE LET r == PyInt(x)
         IN  IF r.exc \in {"ValueError", "TypeError"} THEN IntOk(SafeIntDefault) ELSE r

\* room_id, lines 108-117.
NormRoomId(x) ==
    IF ~Truthy(x) THEN IntOk(ConfigRoomId)
    ELSE IF x.t \in {"int", "bool"} THEN IntOk(x.v)
    ELSE LET r == PyInt(x)
         IN  IF r.exc \in {"ValueError", "TypeError"} THEN IntOk(ConfigRoomId) ELSE r

\* live_status = bool(api_data.get('live_status', 0)), line 143.
NormLiveStatus(x) == Truthy(x)

\* The numeric fields of lines 155-164, in the order they are converted.
NumericFields == <<"online", "attention", "room_silent_level", "room_silent_second",
                   "pk_status", "pk_id", "battle_id", "allow_change_area_time",
                   "allow_upload_cover_time">>
NumericNames == {NumericFields[i] : i \in 1..Len(NumericFields)}

\* Payloads: what is not a dict, and dicts by the raw values of their keys.
NonDict == [kind |-> "nondict", room_id |-> Raw("missing", 0),
            live_status |-> Raw("missing", 0),
            nums |-> [f \in NumericNames |-> Raw("missing", 0)]]
Dict(rid, live, nums) ==
    [kind |-> "dict", room_id |-> rid, live_status |-> live, nums |-> nums]
\* one numeric key holds x, the others hold y
NumPayloads ==
    {Dict(Raw("int", WatchedRoomId), Raw("int", 1),
          [f \in NumericNames |-> IF f = g THEN x ELSE y]) :
        g \in NumericNames, x \in RawValues, y \in RawValues}
\* room_id and live_status hold anything, the numeric keys are missing
IdPayloads ==
    {Dict(x, y, [f \in NumericNames |-> Raw("missing", 0)]) :
        x \in RawValues, y \in RawValues}
Payloads == {NonDict} \cup NumPayloads \cup IdPayloads

\* The first exception among the conversions of numeric fields i.. in
\* statement order, "none" when all return.
RECURSIVE FirstRaise(_, _)
FirstRaise(nums, i) ==
    IF i > Len(NumericFields) THEN "none"
    ELSE LET r == SafeIntConvert(nums[NumericFields[i]])
         IN  IF r.exc # "none" THEN r.exc ELSE FirstRaise(nums, i + 1)

\* _convert_to_room_info, lines 91-237: the exception that leaves it, or the
\* RoomInfo it returns.  RoomInfo is a plain dataclass, its constructor
\* validates nothing, so the fallback of lines 224-237 is never entered.
NoSnapshot == [room_id |-> 0, live_status |-> FALSE,
               nums |-> [f \in NumericNames |-> 0]]
Normalize(p) ==
    IF p.kind # "dict" THEN [exc |-> "ValueError", info |-> NoSnapshot]
    ELSE LET rid == NormRoomId(p.room_id)
             e == IF rid.exc # "none" THEN rid.exc ELSE FirstRaise(p.nums, 1)
         IN  IF e # "none" THEN [exc |-> e, info |-> NoSnapshot]
             ELSE [exc |-> "none",
                   info |-> [room_id |-> rid.val,
                             live_status |-> NormLiveStatus(p.live_status),
                             nums |-> [f \in NumericNames |->
                                          SafeIntConvert(p.nums[f]).val]]]

\* One call of the normalizer.  pc: "idle" "returned" "raised"
NoNorm == [pc |-> "idle", payload |-> NonDict, exc |-> "none", info |-> NoSnapshot]

\* ------------------------------------------------------ transition table
\* PollManager._poll_once, lines 61-85: what the tick does with the fresh
\* snapshot, the loaded record and the callback slot.
\*   save   : save_to_json is called with status
\*   event  : the NotificationType the callback is awaited with, or "none"
\*   warn   : logger.warning("callback not set") is emitted
NoAction == [save |-> FALSE, status |-> NoStatus, event |-> "none", warn |-> FALSE]
Notify(room_info, live, cb, warnUnset) ==
    [save |-> TRUE,
     status |-> [room_id |-> room_info.room_id, live_status |-> live],
     event |-> IF ~cb THEN "none" ELSE IF live THEN "LIVE_START" ELSE "LIVE_END",
     warn |-> warnUnset /\ ~cb]

\* Variant: a start is only detected against an existing offline record.
CompareNeedsRecord(room_info, previous_status, cb) ==
    LET wasLive == previous_status.some /\ previous_status.live_status
    IN  IF room_info.live_status
        THEN IF wasLive \/ ~previous_status.some
             THEN NoAction
             ELSE Notify(room_info, TRUE, cb, TRUE)
        ELSE IF wasLive
             THEN Notify(room_info, FALSE, cb, FALSE)
             ELSE NoAction

\* Variant: the offline branch saves the record of the live branch.
CompareEndSavesLive(room_info, previous_status, cb) ==
    LET wasLive == previous_status.some /\ previous_status.live_status
    IN  IF room_info.live_status
        THEN IF wasLive
             THEN NoAction
             ELSE Notify(room_info, TRUE, cb, TRUE)
        ELSE IF wasLive
             THEN [Notify(room_info, FALSE, cb, FALSE) EXCEPT !.status.live_status = TRUE]
             ELSE NoAction

\* Variant: every live observation is treated as a new start.
CompareNoIdempotence(room_info, previous_status, cb) ==
    LET wasLive == previous_status.some /\ previous_status.live_status
    IN  IF room_info.live_status
        THEN Notify(room_info, TRUE, cb, TRUE)
        ELSE IF wasLive
             THEN Notify(room_info, FALSE, cb, FALSE)
             ELSE NoAction

\* Variant: a transition is notified and its record is not written.
CompareNotifyWithoutSave(room_info, previous_status, cb) ==
    LET wasLive == previous_status.some /\ previous_status.live_status
    IN  IF room_info.live_status
        THEN IF wasLive
             THEN NoAction
             ELSE [Notify(room_info, TRUE, cb, TRUE) EXCEPT !.save = FALSE]
        ELSE IF wasLive
             THEN [Notify(room_info, FALSE, cb, FALSE) EXCEPT !.save = FALSE]
             ELSE NoAction

\* Variant: a missing record counts as live.
CompareAbsentIsLive(room_info, previous_status, cb) ==
    LET wasLive == ~previous_status.some \/ previous_status.live_status
    IN  IF room_info.live_status
        THEN IF wasLive
             THEN NoAction
             ELSE Notify(room_info, TRUE, cb, TRUE)
        ELSE IF wasLive
             THEN Notify(room_info, FALSE, cb, FALSE)
             ELSE NoAction

\* Variant: a tick that finds no record writes one, whatever the flag.
CompareCreatesOnFirst(room_info, previous_status, cb) ==
    LET wasLive == previous_status.some /\ previous_status.live_status
    IN  IF room_info.live_status
        THEN IF wasLive
             THEN NoAction
             ELSE Notify(room_info, TRUE, cb, TRUE)
        ELSE IF wasLive
             THEN Notify(room_info, FALSE, cb, FALSE)
             ELSE IF previous_status.some
                  THEN NoAction
                  ELSE [NoAction EXCEPT !.save = TRUE,
                                        !.status = [room_id |-> room_info.room_id,
                                                    live_status |-> FALSE]]

Compare(room_info, previous_status, cb) ==
    LET wasLive == previous_status.some /\ previous_status.live_status
    IN  IF room_info.live_status
        THEN IF wasLive
             THEN NoAction                             \* lines 63-65
             ELSE Notify(room_info, TRUE, cb, TRUE)    \* lines 66-75
        ELSE IF wasLive
             THEN Notify(room_info, FALSE, cb, FALSE)  \* lines 78-83, no else
             ELSE NoAction                             \* lines 84-85

\* ------------------------------------------------- exception dispositions
\* Exceptions raised at an await of the loop task: "Exception" is any
\* ordinary exception (ApiClientError, ValueError, a callback error),
\* "CancelledError" is asyncio.CancelledError, a BaseException.
\* _poll_once, line 86: `except Exception` swallows ordinary exceptions only.
\* Variant: a bare `except:` that also swallows CancelledError.
PollOnceCatchesAll(exc) == exc # "none"

PollOnceCatches(exc) == exc = "Exception"

\* _run_tasks, lines 36-43: what the loop does with the outcome of line 37/38.
RunTasksOn(exc) ==
    CASE exc = "none" -> "sleep_interval"
      [] exc = "CancelledError" -> "break"
      [] exc = "Exception" -> "sleep_reduced"

\* The two handlers nested: an exception raised inside the tick body first
\* meets line 86, and what is left meets lines 39-43.
\* Variant: any exception of the tick ends the loop.
LoopDispositionBreaks(exc) ==
    IF exc = "none" THEN "sleep_interval" ELSE "break"

LoopDisposition(exc) ==
    RunTasksOn(IF PollOnceCatches(exc) THEN "none" ELSE exc)

\* stop(), lines 27-30: awaiting the finished task re-raises what it ended
\* with; CancelledError is swallowed, anything else leaves stop().
\* Variant: stop() without its `except asyncio.CancelledError`.
StopAwaitRaisesCancelled(h) == h \in {"exception", "cancelled"}

StopAwaitRaises(h) == h = "exception"

\* start(), line 17: a running loop is not started again.
\* Variant: start() without its `if self._running: return`.
StartAlways(r) == TRUE

StartAllowed(r) == ~r

\* ------------------------------------------------------------- API client
\* ApiClient (src/api_client.py).  One attempt is one session.get(...) of
\* _make_request's loop followed by raise_for_status(); the transport's own
\* urllib3 Retry runs inside that call.  What one attempt can end with:
\*   ok              : a response with a 2xx status
\*   timeout         : requests.exceptions.Timeout
\*   connection      : requests.exceptions.ConnectionError
\*   retry_exhausted : requests.exceptions.RetryError, the transport gave up
\*                     on a 429/500/502/503/504 status
\*   http_error      : requests.exceptions.HTTPError out of raise_for_status()
\*                     for any other non-2xx status (404, 403, ...)
\* Timeout is caught by the clause of line 122; ConnectionError, RetryError
\* and HTTPError are RequestExceptions and are caught by the clause of
\* line 127.
DefaultMaxRetries == 3       \* api_client.py: ApiClient(max_retries=3)
MaxRetriesBound == 3         \* largest max_retries a client is built with
RetryLimits == 1..MaxRetriesBound
TransportFailures == {"timeout", "connection"}
StatusFailures == {"retry_exhausted", "http_error"}
AttemptOutcomes == {"ok"} \cup TransportFailures \cup StatusFailures

\* What the upstream answers to the 1st, 2nd, ... attempt of one call; one
\* entry more than the client may use.
ScriptLen == MaxRetriesBound + 1
Scripts == [1..ScriptLen -> AttemptOutcomes]

\* _make_request, lines 98-130: what the loop body does with the outcome of
\* attempt number `attempt`.
\* Variant: only timeouts are retried, every other RequestException is
\* raised at once.
MakeRequestOnlyTimeoutRetried(attempt, max_retries, o) ==
    IF o = "ok" THEN "return"
    ELSE IF o = "timeout"
         THEN (IF attempt = max_retries THEN "raise_timeout" ELSE "sleep")
         ELSE "raise_failed"

\* Variant: the last-attempt test is off by one, so the loop sleeps after
\* the last attempt too.
MakeRequestSleepsOnLast(attempt, max_retries, o) ==
    IF o = "ok" THEN "return"
    ELSE IF o = "timeout"
         THEN (IF attempt = max_retries + 1 THEN "raise_timeout" ELSE "sleep")
         ELSE (IF attempt = max_retries + 1 THEN "raise_failed" ELSE "sleep")

MakeRequestOn(attempt, max_retries, o) ==
    IF o = "ok" THEN "return"
    ELSE IF o = "timeout"
         THEN (IF attempt = max_retries THEN "raise_timeout" ELSE "sleep")
         ELSE (IF attempt = max_retries THEN "raise_failed" ELSE "sleep")

\* for attempt in range(1, self.max_retries + 1), line 98: after a sleep
\* the loop goes on while attempts are left; past the range the function
\* falls off its end and returns None.
LoopContinues(attempt, max_retries) == attempt < max_retries

\* The body of a 2xx response as get_live_room_info reads it (lines 179-182).
\*   code0_data       : {"code": 0, "data": ...}
\*   code0_nodata     : {"code": 0} without "data"       (KeyError)
\*   rejected_msg     : {"code": c, "message": m}, c # 0
\*   rejected_nomsg   : {"code": c}, c # 0, no "message"
\*   nocode_msg       : no "code" key, a "message"   (None != 0)
\*   nocode_nomsg     : no "code" key, no "message"  (None != 0)
\*   not_json         : response.json() raises
\*   not_object       : valid JSON that is not an object (.get fails)
RejectedBodies == {"rejected_msg", "rejected_nomsg"}
Bodies == {"code0_data", "code0_nodata", "nocode_msg", "nocode_nomsg",
           "not_json", "not_object"} \cup RejectedBodies
NoneResponse == "none_response"   \* _make_request returned None

\* get_live_room_info, lines 179-186: result of the call for a body.
\*   error "api_message" : ApiClientError(data["message"])
\*   error "fallback"    : ApiClientError("未知 API 错误")
\*   error "wrapped"     : ApiClientError("获取直播间信息失败: ...")
ClientReturn == [kind |-> "data", msg |-> "none"]
ClientError(m) == [kind |-> "ApiClientError", msg |-> m]
\* Variant: the "code" field is not inspected.
GetLiveRoomInfoIgnoresCode(b) ==
    IF b \in {"code0_data", "rejected_msg", "rejected_nomsg"} THEN ClientReturn
    ELSE ClientError("wrapped")

GetLiveRoomInfoOn(b) ==
    IF b = "code0_data" THEN ClientReturn
    ELSE IF b \in {"rejected_msg", "nocode_msg"} THEN ClientError("api_message")
    ELSE IF b \in {"rejected_nomsg", "nocode_nomsg"} THEN ClientError("fallback")
    ELSE ClientError("wrapped")

\* One get_live_room_info call.
\*   pc: "idle" "attempt" "backoff" "body" "returned" "raised"
\*   caller: the task awaiting the call: "awaiting", "cancelled" once
\*     stop() has cancelled it, "stopped" once stop() has returned
\*   attemptAtStop: history, the attempt number when stop() returned
NoReq == [max_retries |-> DefaultMaxRetries, script |-> [i \in 1..ScriptLen |-> "ok"],
          pc |-> "idle", attempt |-> 0, sleeps |-> 0, body |-> "none",
          result |-> [kind |-> "none", msg |-> "none"],
          caller |-> "awaiting", attemptAtStop |-> 0]

\* ------------------------------------------------------------------ state
VARIABLES
    running,        \* self._running
    task,           \* self._task: NoTask or the id of the last created task
    call_back,      \* self.call_back is set (TRUE) or None (FALSE)
    check_interval, \* config.check_interval
    file,           \* content of RoomStatus.json
    pc,             \* per task: "unused" "new" "fetch" "cb" "sleep" "sleep_retry" "done"
    wait,           \* per task, the awaited future: "none" "pending" "done" "cancelled"
    mustCancel,     \* per task: Task._must_cancel
    fut,            \* per task: result of the awaited future once done
    how,            \* per task: how a done task ended: "return" "cancelled" "exception"
    ready,          \* the event loop's FIFO of scheduled callbacks
    stopPc,         \* per stop() caller: "idle" or "await"
    stopTask,       \* per stop() caller: the task it awaits
    stopRaised,     \* history: the stop() call that completed last raised
    cancelReq,      \* history, per task: stop() has cancelled it
    restarted,      \* history: the loop was started before (same or earlier process)
    fileAtStart,    \* history: content of the file when the current task was created
    tick,           \* history: record of the tick most recently started
    req,            \* one ApiClient.get_live_room_info call, followed attempt by attempt
    store,          \* one RoomStatus save / load exercise on the file
    norm,           \* one PollManager._convert_to_room_info call
    initPc          \* init_plugin: "idle", "started" after start(), "done"

vars == <<running, task, call_back, check_interval, file, pc, wait, mustCancel,
          fut, how, ready, stopPc, stopTask, stopRaised, cancelReq, restarted,
          fileAtStart, tick, req, store, norm, initPc>>

TaskEntry(t) == [k |-> "task", id |-> t]
StopEntry(s) == [k |-> "stop", id |-> s]

NoTick == [task |-> NoTask, first |-> FALSE, phase |-> "none", prev |-> "na",
           cur |-> "na", save |-> "none", savedLive |-> FALSE, emitted |-> <<>>,
           warned |-> FALSE, hadCb |-> FALSE, exc |-> FALSE, end |-> "none",
           delay |-> 0, unacked |-> "none", repeat |-> FALSE,
           unsaved |-> "none", again |-> "none", recording |-> FALSE]
\* The tick record of a behaviour that keeps the history of failed saves and
\* failed callbacks (unacked, repeat, unsaved, again) across ticks.
RecordingTick == [NoTick EXCEPT !.recording = TRUE]
NewTick(t, isFirst) == [NoTick EXCEPT !.task = t, !.first = isFirst,
                                      !.phase = "fetch", !.end = "running"]
\* The live flag an event announces.
FlagOf(event) == IF event = "LIVE_START" THEN "live" ELSE "offline"

InitState(tk) ==
    /\ running = FALSE
    /\ task = NoTask
    /\ call_back = FALSE
    /\ check_interval \in Intervals
    /\ file \in Files
    /\ pc = [t \in Tasks |-> "unused"]
    /\ wait = [t \in Tasks |-> "none"]
    /\ mustCancel = [t \in Tasks |-> FALSE]
    /\ fut = [t \in Tasks |-> NoFut]
    /\ how = [t \in Tasks |-> "none"]
    /\ ready = <<>>
    /\ stopPc = [s \in StopIds |-> "idle"]
    /\ stopTask = [s \in StopIds |-> NoTask]
    /\ stopRaised = FALSE
    /\ cancelReq = [t \in Tasks |-> FALSE]
    /\ restarted = FALSE
    /\ fileAtStart = AbsentFile
    /\ tick = tk
    /\ req = NoReq
    /\ store = NoStore
    /\ norm = NoNorm
    /\ initPc = "idle"

Init == InitState(NoTick)

\* ---------------------------------------------------------- event loop
RECURSIVE WaitersFrom(_, _)
WaitersFrom(t, s) ==
    IF s > MaxStopCallers THEN <<>>
    ELSE (IF stopPc[s] = "await" /\ stopTask[s] = t THEN <<StopEntry(s)>> ELSE <<>>)
         \o WaitersFrom(t, s + 1)
\* The stop() callers suspended on `await self._task`: the done callbacks of t.
Waiters(t) == WaitersFrom(t, 1)

IsHead(e) == ready # <<>> /\ Head(ready) = e
CancelPending(t) == wait[t] = "cancelled" \/ mustCancel[t]

\* asyncio.Task.cancel(): a finished task is left alone; a pending awaited
\* future is cancelled, which schedules the task's wakeup; otherwise the
\* request is kept in _must_cancel for the step already scheduled.
Cancel(t) ==
    IF pc[t] = "done"
    THEN UNCHANGED <<wait, mustCancel, ready, cancelReq>>
    ELSE /\ cancelReq' = [cancelReq EXCEPT ![t] = TRUE]
         /\ IF wait[t] = "pending"
            THEN /\ wait' = [wait EXCEPT ![t] = "cancelled"]
                 /\ ready' = Append(ready, TaskEntry(t))
                 /\ UNCHANGED mustCancel
            ELSE /\ mustCancel' = [mustCancel EXCEPT ![t] = TRUE]
                 /\ UNCHANGED <<wait, ready>>

\* The loop task t leaves its current step of _run_tasks with disposition d;
\* tk is the tick record after this step.
Dispose(t, d, tk) ==
    /\ mustCancel' = [mustCancel EXCEPT ![t] = FALSE]
    /\ fut' = [fut EXCEPT ![t] = NoFut]
    /\ CASE d = "break" ->
              /\ pc' = [pc EXCEPT ![t] = "done"]
              /\ how' = [how EXCEPT ![t] = "return"]
              /\ wait' = [wait EXCEPT ![t] = "none"]
              /\ ready' = Tail(ready) \o Waiters(t)
              /\ tick' = tk
         [] d = "raise" ->
              /\ pc' = [pc EXCEPT ![t] = "done"]
              /\ how' = [how EXCEPT ![t] = "cancelled"]
              /\ wait' = [wait EXCEPT ![t] = "none"]
              /\ ready' = Tail(ready) \o Waiters(t)
              /\ tick' = tk
         [] d = "sleep_interval" ->
              /\ pc' = [pc EXCEPT ![t] = "sleep"]
              /\ wait' = [wait EXCEPT ![t] = "pending"]
              /\ ready' = Tail(ready)
              /\ tick' = [tk EXCEPT !.delay = check_interval]
              /\ UNCHANGED how
         [] d = "sleep_reduced" ->
              /\ pc' = [pc EXCEPT ![t] = "sleep_retry"]
              /\ wait' = [wait EXCEPT ![t] = "pending"]
              /\ ready' = Tail(ready)
              /\ tick' = [tk EXCEPT !.delay = Min(check_interval, ReducedRetryCap)]
              /\ UNCHANGED how

\* _poll_once entered: line 47 hands the request to the executor and awaits.
EnterTick(t, isFirst) ==
    /\ pc' = [pc EXCEPT ![t] = "fetch"]
    /\ wait' = [wait EXCEPT ![t] = "pending"]
    /\ mustCancel' = [mustCancel EXCEPT ![t] = FALSE]
    /\ fut' = [fut EXCEPT ![t] = NoFut]
    /\ ready' = Tail(ready)
    /\ tick' = [NewTick(t, isFirst) EXCEPT !.unacked = tick.unacked,
                                           !.unsaved = tick.unsaved,
                                           !.recording = tick.recording]
    /\ UNCHANGED how

\* unacked: the event of the last saved transition whose callback raised
\* or was cancelled, while no other flag has been observed since.
EndOf(tk, exc) ==
    [tk EXCEPT !.exc = (exc = "Exception"),
               !.end = IF exc = "CancelledError" THEN "cancelled" ELSE "returned",
               !.unacked = IF tk.recording /\ exc # "none"
                              /\ tk.phase = "compared"
                              /\ tk.emitted # <<>> /\ tk.save = "ok"
                           THEN tk.emitted[1] ELSE tk.unacked]

\* ------------------------------------------------------------ operations
\* `await pm.start()` in init_plugin (__init__.py line 22) gives the event
\* loop a turn only if start() itself suspends; start(), lines 16-21, has no
\* await in it.
\* Variant: start() awaits something before it returns.
StartYields == TRUE

StartSuspends == FALSE

\* The event loop can run its next ready callback: no coroutine is in the
\* middle of a step.
LoopFree == initPc = "started" => StartSuspends

\* PollManager.start
StartCall ==
    /\ StartAllowed(running)
    /\ \E t \in Tasks :
         /\ pc[t] = "unused"
         /\ \A u \in Tasks : u < t => pc[u] # "unused"
         /\ running' = TRUE
         /\ task' = t
         /\ pc' = [pc EXCEPT ![t] = "new"]
         /\ ready' = Append(ready, TaskEntry(t))
         /\ restarted' = (restarted \/ task # NoTask)
         /\ fileAtStart' = file
    /\ UNCHANGED <<req, store, norm>>
    /\ UNCHANGED <<call_back, check_interval, file, wait, mustCancel, fut, how,
                   stopPc, stopTask, stopRaised, cancelReq, tick>>

\* start() called by any coroutine other than init_plugin.
Start == StartCall /\ UNCHANGED initPc

\* PollManager.start when the loop already runs: line 18 returns.
StartNoop ==
    /\ ~StartAllowed(running)
    /\ UNCHANGED vars

\* PollManager.registerCallback
RegisterCall(cb) ==
    /\ call_back' = cb
    /\ UNCHANGED <<req, store, norm>>
    /\ UNCHANGED <<running, task, check_interval, file, pc, wait, mustCancel, fut,
                   how, ready, stopPc, stopTask, stopRaised, cancelReq, restarted,
                   fileAtStart, tick>>

\* registerCallback() called by any coroutine other than init_plugin.
RegisterCallback(cb) == RegisterCall(cb) /\ UNCHANGED initPc

\* PollManager.stop up to its await: lines 24-28.  Awaiting a finished task
\* does not suspend, so stop() then runs to its end in the same step.
Stop(s) ==
    /\ stopPc[s] = "idle"
    /\ running' = FALSE
    /\ IF task = NoTask
       THEN /\ stopRaised' = FALSE
            /\ UNCHANGED <<wait, mustCancel, ready, cancelReq, stopPc, stopTask>>
       ELSE /\ Cancel(task)
            /\ IF pc[task] = "done"
               THEN /\ stopRaised' = StopAwaitRaises(how[task])
                    /\ UNCHANGED <<stopPc, stopTask>>
               ELSE /\ stopPc' = [stopPc EXCEPT ![s] = "await"]
                    /\ stopTask' = [stopTask EXCEPT ![s] = task]
                    /\ UNCHANGED stopRaised
    /\ UNCHANGED <<req, store, norm, initPc>>
    /\ UNCHANGED <<task, call_back, check_interval, file, pc, fut, how, restarted,
                   fileAtStart, tick>>

\* PollManager.stop resumed after `await self._task`: lines 29-31.
StopReturn(s) ==
    /\ LoopFree
    /\ IsHead(StopEntry(s))
    /\ stopPc[s] = "await"
    /\ ready' = Tail(ready)
    /\ stopPc' = [stopPc EXCEPT ![s] = "idle"]
    /\ stopTask' = [stopTask EXCEPT ![s] = NoTask]
    /\ stopRaised' = StopAwaitRaises(how[stopTask[s]])
    /\ UNCHANGED <<req, store, norm, initPc>>
    /\ UNCHANGED <<running, task, call_back, check_interval, file, pc, wait,
                   mustCancel, fut, how, cancelReq, restarted, fileAtStart, tick>>

\* The loop task's first step: _run_tasks enters its first tick.
FirstStep(t) ==
    /\ LoopFree
    /\ IsHead(TaskEntry(t))
    /\ pc[t] = "new"
    /\ ~CancelPending(t)
    /\ EnterTick(t, TRUE)
    /\ UNCHANGED <<req, store, norm, initPc>>
    /\ UNCHANGED <<running, task, call_back, check_interval, file, stopPc, stopTask,
                   stopRaised, cancelReq, restarted, fileAtStart>>

\* The loop task resumed with CancelledError thrown at its await.
TaskCancelled(t) ==
    /\ LoopFree
    /\ IsHead(TaskEntry(t))
    /\ pc[t] \in {"new", "fetch", "cb", "sleep", "sleep_retry"}
    /\ CancelPending(t)
    /\ CASE pc[t] = "new" -> Dispose(t, "raise", tick)
         [] pc[t] \in {"fetch", "cb"} ->
              Dispose(t, LoopDisposition("CancelledError"),
                      IF tick.task = t THEN EndOf(tick, "CancelledError") ELSE tick)
         [] pc[t] = "sleep" -> Dispose(t, RunTasksOn("CancelledError"), tick)
         [] pc[t] = "sleep_retry" -> Dispose(t, "raise", tick)
    /\ UNCHANGED <<req, store, norm, initPc>>
    /\ UNCHANGED <<running, task, call_back, check_interval, file, stopPc, stopTask,
                   stopRaised, cancelReq, restarted, fileAtStart>>

\* _poll_once, lines 47-52: the way the tick takes with the fetch result.
\*   raise         : the await of line 47 raises ApiClientError
\*   return        : `if not res`, lines 48-50
\*   convert_raise : _convert_to_room_info raises ValueError, lines 104-105
\*   compare       : the snapshot is compared with the record, lines 56-85
\* Variant: without the `if not res` return an empty dict is normalized to
\* its defaults, a room that is offline.
PollOnceRouteEmptyIsOffline(r) ==
    CASE r.kind = "error" -> "raise"
      [] r.kind = "nondict" -> "convert_raise"
      [] OTHER -> "compare"

PollOnceRoute(r) ==
    CASE r.kind = "error" -> "raise"
      [] r.kind = "empty" -> "return"
      [] r.kind = "nondict" -> "convert_raise"
      [] OTHER -> "compare"

PrevOf(previous_status) ==
    IF ~previous_status.some THEN "absent"
    ELSE IF previous_status.live_status THEN "live" ELSE "offline"
CurOf(room_info) == IF room_info.live_status THEN "live" ELSE "offline"
CallbackModes == {"suspend", "sync_ok", "sync_raise"}
\* unsaved: the event of the last transition whose save failed, while no
\* other flag has been observed and no save has succeeded since.
EventOf(live) == IF live THEN "LIVE_START" ELSE "LIVE_END"
SameAsUnsaved(room_info) ==
    tick.unsaved # "none" /\ CurOf(room_info) = FlagOf(tick.unsaved)
\* The snapshot shows the flag of the transition whose callback failed.
SameAsUnacked(room_info) ==
    tick.unacked # "none" /\ CurOf(room_info) = FlagOf(tick.unacked)

\* _poll_once resumed with the fetch result: lines 47-85 up to the await of
\* the callback (or to the end of the tick when no callback is awaited).
\*   so : what the file system does if save_to_json is called
\*   cm : the callback suspends, or returns / raises before suspending
ResumeFetch(t) ==
    /\ LoopFree
    /\ IsHead(TaskEntry(t))
    /\ pc[t] = "fetch"
    /\ wait[t] = "done"
    /\ ~CancelPending(t)
    /\ LET r == fut[t] IN
       CASE PollOnceRoute(r) = "raise" ->
              \* ApiClientError out of get_live_room_info
              /\ Dispose(t, LoopDisposition("Exception"),
                         EndOf([tick EXCEPT !.phase = "fetch_failed"], "Exception"))
              /\ UNCHANGED file
         [] PollOnceRoute(r) = "return" ->
              \* lines 48-50
              /\ Dispose(t, LoopDisposition("none"),
                         EndOf([tick EXCEPT !.phase = "empty"], "none"))
              /\ UNCHANGED file
         [] PollOnceRoute(r) = "convert_raise" ->
              \* lines 104-105: ValueError out of _convert_to_room_info
              /\ Dispose(t, LoopDisposition("Exception"),
                         EndOf([tick EXCEPT !.phase = "convert_failed"], "Exception"))
              /\ UNCHANGED file
         [] PollOnceRoute(r) = "compare" ->
              \E so \in SaveOutcomes, cm \in CallbackModes :
                LET room_info == ConvertToRoomInfo(r)
                    previous_status == LoadFromJson(file)
                    c == Compare(room_info, previous_status, call_back)
                    tk == [tick EXCEPT !.phase = "compared",
                                       !.prev = PrevOf(previous_status),
                                       !.cur = CurOf(room_info),
                                       !.save = IF c.save THEN so ELSE "none",
                                       !.savedLive = c.save /\ c.status.live_status,
                                       !.emitted = IF c.event = "none" THEN <<>>
                                                   ELSE <<c.event>>,
                                       !.warned = c.warn,
                                       !.hadCb = call_back,
                                       !.repeat = SameAsUnacked(room_info),
                                       !.unacked = IF SameAsUnacked(room_info)
                                                   THEN tick.unacked ELSE "none",
                                       !.again = IF SameAsUnsaved(room_info)
                                                 THEN tick.unsaved ELSE "none",
                                       !.unsaved =
                                           IF ~tick.recording THEN "none"
                                           ELSE IF c.save
                                           THEN (IF so = "ok" THEN "none"
                                                 ELSE EventOf(c.status.live_status))
                                           ELSE IF SameAsUnsaved(room_info)
                                                THEN tick.unsaved ELSE "none"]
                IN  /\ c.save \/ so = "ok"
                    /\ c.event # "none" \/ cm = "sync_ok"
                    /\ file' = IF c.save THEN SaveToJson(c.status, file, so) ELSE file
                    /\ CASE c.event # "none" /\ cm = "suspend" ->
                              /\ pc' = [pc EXCEPT ![t] = "cb"]
                              /\ wait' = [wait EXCEPT ![t] = "pending"]
                              /\ mustCancel' = [mustCancel EXCEPT ![t] = FALSE]
                              /\ fut' = [fut EXCEPT ![t] = NoFut]
                              /\ ready' = Tail(ready)
                              /\ tick' = tk
                              /\ UNCHANGED how
                         [] c.event # "none" /\ cm = "sync_raise" ->
                              Dispose(t, LoopDisposition("Exception"), EndOf(tk, "Exception"))
                         [] OTHER ->
                              Dispose(t, LoopDisposition("none"), EndOf(tk, "none"))
    /\ UNCHANGED <<req, store, norm, initPc>>
    /\ UNCHANGED <<running, task, call_back, check_interval, stopPc, stopTask,
                   stopRaised, cancelReq, restarted, fileAtStart>>

\* _poll_once resumed after the awaited callback: line 73 / 83 returns or raises.
ResumeCallback(t) ==
    /\ LoopFree
    /\ IsHead(TaskEntry(t))
    /\ pc[t] = "cb"
    /\ wait[t] = "done"
    /\ ~CancelPending(t)
    /\ LET exc == IF fut[t].kind = "cb_raise" THEN "Exception" ELSE "none"
       IN  Dispose(t, LoopDisposition(exc), EndOf(tick, exc))
    /\ UNCHANGED <<req, store, norm, initPc>>
    /\ UNCHANGED <<running, task, call_back, check_interval, file, stopPc, stopTask,
                   stopRaised, cancelReq, restarted, fileAtStart>>

\* _run_tasks resumed after asyncio.sleep (line 38 or 43): the next tick.
ResumeSleep(t) ==
    /\ LoopFree
    /\ IsHead(TaskEntry(t))
    /\ pc[t] \in {"sleep", "sleep_retry"}
    /\ wait[t] = "done"
    /\ ~CancelPending(t)
    /\ EnterTick(t, FALSE)
    /\ UNCHANGED <<req, store, norm, initPc>>
    /\ UNCHANGED <<running, task, call_back, check_interval, file, stopPc, stopTask,
                   stopRaised, cancelReq, restarted, fileAtStart>>

\* ------------------------------------------------------------ environment
FutureDone(t, r) ==
    /\ wait[t] = "pending"
    /\ wait' = [wait EXCEPT ![t] = "done"]
    /\ fut' = [fut EXCEPT ![t] = r]
    /\ ready' = Append(ready, TaskEntry(t))
    /\ UNCHANGED <<req, store, norm, initPc>>
    /\ UNCHANGED <<running, task, call_back, check_interval, file, pc, mustCancel,
                   how, stopPc, stopTask, stopRaised, cancelReq, restarted,
                   fileAtStart, tick>>

\* The executor thread finishes _make_request and the result reaches the loop.
FetchComplete(t) == pc[t] = "fetch" /\ \E r \in FetchResults : FutureDone(t, r)

\* The callback's own awaits finish: it returns or raises.
CallbackComplete(t) == pc[t] = "cb" /\ \E r \in CbResults : FutureDone(t, r)

\* The timer of asyncio.sleep expires.
TimerFire(t) == pc[t] \in {"sleep", "sleep_retry"} /\ FutureDone(t, NoFut)

\* The process ends and a new one constructs PollManager(): tasks, callers
\* and futures are gone, the file stays.
ProcessRestart ==
    /\ task # NoTask
    /\ running' = FALSE
    /\ task' = NoTask
    /\ call_back' = FALSE
    /\ pc' = [t \in Tasks |-> "unused"]
    /\ wait' = [t \in Tasks |-> "none"]
    /\ mustCancel' = [t \in Tasks |-> FALSE]
    /\ fut' = [t \in Tasks |-> NoFut]
    /\ how' = [t \in Tasks |-> "none"]
    /\ ready' = <<>>
    /\ stopPc' = [s \in StopIds |-> "idle"]
    /\ stopTask' = [s \in StopIds |-> NoTask]
    /\ stopRaised' = FALSE
    /\ cancelReq' = [t \in Tasks |-> FALSE]
    /\ restarted' = TRUE
    /\ tick' = [NoTick EXCEPT !.recording = tick.recording]
    /\ initPc' = "idle"
    /\ UNCHANGED <<req, store, norm>>
    /\ UNCHANGED <<check_interval, file, fileAtStart>>

Next ==
    \/ Start
    \/ StartNoop
    \/ \E cb \in BOOLEAN : RegisterCallback(cb)
    \/ \E s \in StopIds : Stop(s)
    \/ \E s \in StopIds : StopReturn(s)
    \/ \E t \in Tasks : FirstStep(t)
    \/ \E t \in Tasks : TaskCancelled(t)
    \/ \E t \in Tasks : ResumeFetch(t)
    \/ \E t \in Tasks : ResumeCallback(t)
    \/ \E t \in Tasks : ResumeSleep(t)
    \/ \E t \in Tasks : FetchComplete(t)
    \/ \E t \in Tasks : CallbackComplete(t)
    \/ \E t \in Tasks : TimerFire(t)
    \/ ProcessRestart

Spec == Init /\ [][Next]_vars

\* The same program, with the history of failed saves and callbacks kept.
HistoryInit == InitState(RecordingTick)

HistorySpec == HistoryInit /\ [][Next]_vars

TypeOK ==
    /\ running \in BOOLEAN
    /\ task \in {NoTask} \cup Tasks
    /\ call_back \in BOOLEAN
    /\ check_interval \in Intervals
    /\ file \in Files
    /\ \A t \in Tasks : pc[t] \in {"unused", "new", "fetch", "cb", "sleep", "sleep_retry", "done"}
    /\ \A t \in Tasks : wait[t] \in {"none", "pending", "done", "cancelled"}
    /\ Len(ready) <= MaxTasks + MaxStopCallers

\* The event loop runs the callback at the head of its ready queue.
LoopStep ==
    \/ \E s \in StopIds : StopReturn(s)
    \/ \E t \in Tasks : FirstStep(t) \/ TaskCancelled(t) \/ ResumeFetch(t)
                        \/ ResumeCallback(t) \/ ResumeSleep(t)

\* The event loop keeps running its ready callbacks and timers expire.
FairSpec ==
    /\ Spec
    /\ WF_vars(LoopStep)
    /\ WF_vars(\E t \in Tasks : TimerFire(t))

\* ------------------------------------------------ the plugin's life cycle
\* The loop driven by the plugin's own entry points only (__init__.py):
\* init_plugin, which is one coroutine and so one position initPc, and
\* cleanup_plugin.

\* init_plugin up to the return of pm.start(), lines 19-22.
InitStart ==
    /\ initPc # "started"
    /\ IF StartAllowed(running)
       THEN StartCall
       ELSE UNCHANGED <<running, task, call_back, check_interval, file, pc, wait,
                        mustCancel, fut, how, ready, stopPc, stopTask, stopRaised,
                        cancelReq, restarted, fileAtStart, tick, req, store, norm>>
    /\ initPc' = "started"

\* init_plugin from there to its end: pm.registerCallback(notice), line 23.
InitRegister ==
    /\ initPc = "started"
    /\ RegisterCall(TRUE)
    /\ initPc' = "done"

\* cleanup_plugin, lines 26-29, run by the host once init_plugin is over.
Cleanup(s) ==
    /\ initPc = "done"
    /\ Stop(s)

PluginNext ==
    \/ InitStart
    \/ InitRegister
    \/ \E s \in StopIds : Cleanup(s)
    \/ \E s \in StopIds : StopReturn(s)
    \/ \E t \in Tasks : FirstStep(t)
    \/ \E t \in Tasks : TaskCancelled(t)
    \/ \E t \in Tasks : ResumeFetch(t)
    \/ \E t \in Tasks : ResumeCallback(t)
    \/ \E t \in Tasks : ResumeSleep(t)
    \/ \E t \in Tasks : FetchComplete(t)
    \/ \E t \in Tasks : CallbackComplete(t)
    \/ \E t \in Tasks : TimerFire(t)
    \/ ProcessRestart

PluginSpec == Init /\ [][PluginNext]_vars

\* ----------------------------------------------- one API call on its own
mainVars == <<running, task, call_back, check_interval, file, pc, wait,
              mustCancel, fut, how, ready, stopPc, stopTask, stopRaised,
              cancelReq, restarted, fileAtStart, tick, initPc>>

\* The plugin as constructed and not started.
NotStarted ==
    /\ running = FALSE
    /\ task = NoTask
    /\ call_back = FALSE
    /\ check_interval = DefaultCheckInterval
    /\ pc = [t \in Tasks |-> "unused"]
    /\ wait = [t \in Tasks |-> "none"]
    /\ mustCancel = [t \in Tasks |-> FALSE]
    /\ fut = [t \in Tasks |-> NoFut]
    /\ how = [t \in Tasks |-> "none"]
    /\ ready = <<>>
    /\ stopPc = [s \in StopIds |-> "idle"]
    /\ stopTask = [s \in StopIds |-> NoTask]
    /\ stopRaised = FALSE
    /\ cancelReq = [t \in Tasks |-> FALSE]
    /\ restarted = FALSE
    /\ fileAtStart = AbsentFile
    /\ tick = NoTick
    /\ initPc = "idle"

\* A client built with some max_retries, facing some upstream behaviour.
ClientInit ==
    /\ NotStarted
    /\ file = AbsentFile
    /\ \E n \in RetryLimits, sc \in Scripts :
          req = [NoReq EXCEPT !.max_retries = n, !.script = sc]
    /\ store = NoStore
    /\ norm = NoNorm

\* get_live_room_info is called; _get_request hands _make_request to the
\* executor, which enters the loop with attempt = 1 (lines 170-178, 98).
RequestBegin ==
    /\ req.pc = "idle"
    /\ req' = [req EXCEPT !.pc = "attempt", !.attempt = 1]
    /\ UNCHANGED <<mainVars, store, norm>>

\* One pass of the loop body, lines 99-130: the request is sent and its
\* outcome handled.
Attempt ==
    /\ req.pc = "attempt"
    /\ req.attempt <= ScriptLen
    /\ LET d == MakeRequestOn(req.attempt, req.max_retries, req.script[req.attempt])
       IN req' = CASE d = "return" -> [req EXCEPT !.pc = "body"]
                   [] d = "sleep" ->
                        [req EXCEPT !.pc = "backoff", !.sleeps = req.sleeps + 1]
                   [] d = "raise_timeout" ->
                        [req EXCEPT !.pc = "raised",
                                    !.result = ClientError("timeout_exhausted")]
                   [] OTHER ->
                        [req EXCEPT !.pc = "raised",
                                    !.result = ClientError("failed_exhausted")]
    /\ UNCHANGED <<mainVars, store, norm>>

\* time.sleep(random.uniform(1, 2)) returns, lines 125 and 130, and the for
\* statement takes its next value; with none left _make_request returns
\* None and response.json() fails in get_live_room_info (line 179).
Backoff ==
    /\ req.pc = "backoff"
    /\ req' = IF LoopContinues(req.attempt, req.max_retries)
              THEN [req EXCEPT !.pc = "attempt", !.attempt = req.attempt + 1]
              ELSE [req EXCEPT !.pc = "raised", !.body = NoneResponse,
                               !.result = ClientError("wrapped")]
    /\ UNCHANGED <<mainVars, store, norm>>

\* stop() cancels the loop task while it awaits the executor future of
\* _get_request (lines 149-153): the task gets CancelledError at its await.
\* _make_request runs in a worker thread, which a cancelled future does not
\* interrupt and which never looks at the future: Attempt and Backoff stay
\* as they are.
CallerCancelled ==
    /\ req.pc \in {"attempt", "backoff"}
    /\ req.caller = "awaiting"
    /\ req' = [req EXCEPT !.caller = "cancelled"]
    /\ UNCHANGED <<mainVars, store, norm>>

\* The cancelled task has ended and stop() returns (poll_manager.py lines
\* 27-31).
StopReturned ==
    /\ req.caller = "cancelled"
    /\ req' = [req EXCEPT !.caller = "stopped", !.attemptAtStop = req.attempt]
    /\ UNCHANGED <<mainVars, store, norm>>

\* get_live_room_info reads the body of the 2xx response, lines 179-186;
\* a cancelled caller is no longer there to read it.
ParseBody(b) ==
    /\ req.pc = "body"
    /\ req.caller = "awaiting"
    /\ LET r == GetLiveRoomInfoOn(b)
       IN req' = [req EXCEPT !.body = b, !.result = r,
                             !.pc = IF r.kind = "data" THEN "returned" ELSE "raised"]
    /\ UNCHANGED <<mainVars, store, norm>>

ClientNext ==
    \/ RequestBegin
    \/ Attempt
    \/ Backoff
    \/ \E b \in Bodies : ParseBody(b)
    \/ CallerCancelled
    \/ StopReturned

ClientSpec == ClientInit /\ [][ClientNext]_vars

\* ------------------------------------------- the record store on its own
\* Some file on disk and some status to save.
StoreInit ==
    /\ NotStarted
    /\ file \in Files
    /\ \E st \in Statuses :
          store = [NoStore EXCEPT !.status = st, !.before = LoadFromJson(file)]
    /\ req = NoReq
    /\ norm = NoNorm

\* status.save_to_json(path), models.py lines 52-76.
StoreSave(so) ==
    /\ store.pc = "idle"
    /\ file' = SaveToJson(store.status, file, so)
    /\ store' = [store EXCEPT !.pc = "saved", !.outcome = so, !.ret = SaveReturns(so)]
    /\ UNCHANGED <<running, task, call_back, check_interval, pc, wait, mustCancel,
                   fut, how, ready, stopPc, stopTask, stopRaised, cancelReq,
                   restarted, fileAtStart, tick, req, norm, initPc>>

\* RoomStatus.load_from_json(path), models.py lines 78-103.
StoreLoad ==
    /\ store.pc \in {"idle", "saved"}
    /\ store' = [store EXCEPT !.pc = "loaded", !.loaded = LoadFromJson(file)]
    /\ UNCHANGED <<mainVars, req, norm>>

StoreNext ==
    \/ \E so \in SaveOutcomes : StoreSave(so)
    \/ StoreLoad

StoreSpec == StoreInit /\ [][StoreNext]_vars

\* ---------------------------------------------- the normalizer on its own
NormInit ==
    /\ NotStarted
    /\ file = AbsentFile
    /\ \E p \in Payloads : norm = [NoNorm EXCEPT !.payload = p]
    /\ req = NoReq
    /\ store = NoStore

\* self._convert_to_room_info(res), poll_manager.py line 52.
Convert ==
    /\ norm.pc = "idle"
    /\ LET r == Normalize(norm.payload)
       IN norm' = [norm EXCEPT !.pc = IF r.exc = "none" THEN "returned" ELSE "raised",
                               !.exc = r.exc, !.info = r.info]
    /\ UNCHANGED <<mainVars, req, store>>

NormNext == Convert

NormSpec == NormInit /\ [][NormNext]_vars

\* ================================================================= claims
Compared == tick.phase = "compared"
FileLive == file.kind = "json" /\ file.live_status = "true"
FileOffline == file.kind = "json" /\ file.live_status = "false"

\* C1: a tick that fetches live = true while the record is absent or offline
\* calls save with {live: true} and awaits the registered callback with
\* LIVE_START exactly once; the save having succeeded, the file holds
\* live = true after the tick.
C1_LiveStart ==
    (Compared /\ tick.cur = "live" /\ tick.prev \in {"absent", "offline"}) =>
        /\ tick.save # "none" /\ tick.savedLive
        /\ tick.hadCb => tick.emitted = <<"LIVE_START">>
        /\ tick.save = "ok" => FileLive

C1_Witness ==
    /\ Compared /\ tick.cur = "live" /\ tick.prev = "absent"
    /\ tick.hadCb /\ tick.emitted = <<"LIVE_START">>
    /\ tick.save = "ok" /\ FileLive
    /\ tick.end = "returned"

\* C2: a tick that fetches live = false while the record has live = true
\* calls save with {live: false} and awaits the registered callback with
\* LIVE_END exactly once; the save having succeeded, the file holds
\* live = false after the tick.
C2_LiveEnd ==
    (Compared /\ tick.cur = "offline" /\ tick.prev = "live") =>
        /\ tick.save # "none" /\ ~tick.savedLive
        /\ tick.hadCb => tick.emitted = <<"LIVE_END">>
        /\ tick.save = "ok" => FileOffline

C2_Witness ==
    /\ Compared /\ tick.cur = "offline" /\ tick.prev = "live"
    /\ tick.hadCb /\ tick.emitted = <<"LIVE_END">>
    /\ tick.save = "ok" /\ FileOffline
    /\ tick.end = "returned"

SameFlag(t) ==
    LET previous_status == LoadFromJson(file)
    IN  ConvertLiveStatus(fut[t]) = (previous_status.some /\ previous_status.live_status)

\* C3: a tick whose fetched live flag equals the persisted flag (no usable
\* record counting as live = false) leaves the file as it is and awaits no
\* callback; this holds for every tick, so for any run of such ticks.
C3_Idempotent ==
    [][\A t \in Tasks :
          (/\ IsHead(TaskEntry(t)) /\ pc[t] = "fetch" /\ wait[t] = "done"
           /\ fut[t].kind = "dict" /\ SameFlag(t)
           /\ tick'.phase = "compared")
          => /\ file' = file
             /\ pc'[t] # "cb"
             /\ tick'.emitted = <<>>
             /\ tick'.save = "none"]_vars

C3_Witness ==
    /\ Compared /\ ~tick.first
    /\ tick.cur = "live" /\ tick.prev = "live"
    /\ tick.emitted = <<>> /\ tick.save = "none"
    /\ FileLive

StartedOnLive == fileAtStart.kind = "json" /\ fileAtStart.live_status = "true"

\* C4: the record outlives the loop: when the loop is started while the file
\* holds live = true, the first tick of the new task awaits no callback and
\* writes nothing if the room is live, and saves {live: false} and awaits
\* the registered callback with LIVE_END if the room is offline.
C4_AcrossRestart ==
    (Compared /\ tick.first /\ tick.task = task /\ StartedOnLive) =>
        /\ tick.prev = "live"
        /\ tick.cur = "live" =>
              tick.emitted = <<>> /\ tick.save = "none" /\ file = fileAtStart
        /\ tick.cur = "offline" =>
              /\ tick.save # "none" /\ ~tick.savedLive
              /\ tick.hadCb => tick.emitted = <<"LIVE_END">>

C4_Witness ==
    /\ Compared /\ tick.first /\ tick.task = task /\ StartedOnLive /\ restarted
    /\ tick.cur = "offline" /\ tick.hadCb /\ tick.emitted = <<"LIVE_END">>

TickRaised(t) == tick.task = t /\ tick.exc

\* C5: a tick in which an exception was raised (fetch, normalizer or
\* callback) does not end the loop: unless stop() cancels the task or the
\* process ends, the task goes on to another tick.
C5_FailedTickRetried ==
    \A t \in Tasks :
        TickRaised(t) ~> (pc[t] = "fetch" \/ cancelReq[t] \/ pc[t] = "unused")

C5_Witness ==
    \E t \in Tasks :
        /\ TickRaised(t) /\ tick.phase = "fetch_failed"
        /\ pc[t] = "sleep" /\ wait[t] = "pending" /\ ~cancelReq[t]

\* C6 (as claimed): after a tick in which an exception was raised the loop
\* sleeps min(check_interval, 30).
C6_ReducedRetry ==
    \A t \in Tasks :
        (TickRaised(t) /\ tick.end = "returned" /\ pc[t] \in {"sleep", "sleep_retry"})
            => tick.delay = Min(check_interval, ReducedRetryCap)

\* C7: a task that stop() has cancelled enters no further tick, whether the
\* cancellation meets it asleep, awaiting the fetch or awaiting the callback,
\* and stop() resumes from its await only when that task is done.
C7_StopEndsLoop ==
    [][/\ \A t \in Tasks : cancelReq[t] => ~(pc[t] # "fetch" /\ pc'[t] = "fetch")
       /\ \A s \in StopIds : StopReturn(s) => pc[stopTask[s]] = "done"]_vars

C7_Witness ==
    \E t \in Tasks :
        /\ cancelReq[t] /\ pc[t] = "done"
        /\ tick.task = t /\ tick.end = "cancelled" /\ tick.phase = "compared"
        /\ \A s \in StopIds : stopPc[s] = "idle"

Stopped == ~running /\ (task = NoTask \/ pc[task] = "done")
NoTaskAlive == \A t \in Tasks : pc[t] \in {"unused", "done"} /\ wait[t] = "none"
StopEffect ==
    \E s \in StopIds :
        /\ Stop(s)
        /\ \/ stopRaised'
           \/ <<running, task, call_back, file, pc, wait, mustCancel, fut, how,
                ready, stopPc, stopTask, cancelReq>>'
                # <<running, task, call_back, file, pc, wait, mustCancel, fut, how,
                    ready, stopPc, stopTask, cancelReq>>

\* C8: stop() on a manager whose loop was never started or has been stopped
\* (no task, or a finished one, and _running false) raises nothing, changes
\* no field, task or queue, and no loop task or sleep is alive.
C8_StopIdempotent ==
    Stopped => (NoTaskAlive /\ ~stopRaised /\ ~ENABLED StopEffect)

C8_Witness ==
    /\ Stopped /\ task # NoTask /\ cancelReq[task] /\ how[task] = "cancelled"
    /\ ~stopRaised /\ NoTaskAlive
    /\ \A s \in StopIds : stopPc[s] = "idle"

InTick == {t \in Tasks : pc[t] \in {"fetch", "cb"}}

\* C9: at most one loop task is inside a tick (awaiting the fetch or the
\* callback) at any time, whatever start() and stop() calls are interleaved.
C9_OneTick == Cardinality(InTick) <= 1

C9_Witness ==
    \E s \in StopIds :
        /\ stopPc[s] = "await" /\ running /\ task # stopTask[s]
        /\ pc[stopTask[s]] = "done" /\ pc[task] = "fetch"

\* C10 (as claimed): a transition detected with the callback slot unset logs
\* a warning, still saves the new state, and the loop goes on.
C10_UnsetCallbackWarns ==
    (Compared /\ ~tick.hadCb /\ tick.save # "none" /\ tick.end = "returned") =>
        /\ tick.warned
        /\ tick.emitted = <<>>
        /\ pc[tick.task] \in {"sleep", "fetch", "cb"} \/ cancelReq[tick.task]

\* ------------------------------------------------------ API client claims
\* The attempt loop of the call is over: it returned a response or raised.
LoopLeft == req.pc \in {"body", "returned", "raised"}
\* _make_request returned a 2xx response to get_live_room_info.
LoopReturned == req.pc = "body" \/ req.body \in Bodies
\* The upstream fails the first k attempts at transport level and answers
\* the next one.
FailsThenOk(k) ==
    /\ \A i \in 1..k : req.script[i] \in TransportFailures
    /\ req.script[k + 1] = "ok"

\* C11: with max_retries = N and k < N, when the first k attempts fail with
\* a timeout or a connection error and attempt k+1 succeeds, the attempt
\* loop returns that response, having made exactly k+1 attempts (and k
\* backoff sleeps), and never makes more.
C11_RetryThenSuccess ==
    \A k \in 0..(req.max_retries - 1) :
        FailsThenOk(k) =>
            /\ req.attempt <= k + 1
            /\ LoopLeft => (LoopReturned /\ req.attempt = k + 1 /\ req.sleeps = k)

C11_Witness ==
    /\ req.max_retries = DefaultMaxRetries
    /\ req.script[1] = "timeout" /\ req.script[2] = "connection"
    /\ req.script[3] = "ok"
    /\ req.pc = "returned" /\ req.attempt = 3

AllTimeouts == \A i \in 1..req.max_retries : req.script[i] = "timeout"

\* C12: with max_retries = N, when every attempt times out the call raises
\* ApiClientError (the timeout message) after exactly N attempts and makes
\* no further one; a backoff sleep follows every failed attempt but the
\* last, N-1 sleeps in all.
C12_TimeoutExhaustion ==
    AllTimeouts =>
        /\ req.attempt <= req.max_retries
        /\ req.pc = "attempt" => req.sleeps = req.attempt - 1
        /\ req.pc = "backoff" =>
              (req.attempt < req.max_retries /\ req.sleeps = req.attempt)
        /\ LoopLeft =>
              /\ req.pc = "raised"
              /\ req.result = ClientError("timeout_exhausted")
              /\ req.attempt = req.max_retries
              /\ req.sleeps = req.max_retries - 1

C12_Witness ==
    /\ AllTimeouts
    /\ req.max_retries = DefaultMaxRetries
    /\ req.pc = "raised" /\ req.attempt = 3 /\ req.sleeps = 2

\* C13: a 2xx response whose body carries a non-zero "code" makes the call
\* raise ApiClientError with the body's message, or with the generic
\* fallback when the body has none; the response is the last attempt of the
\* call (the only one when the first attempt got it).
C13_ApiRejection ==
    req.body \in RejectedBodies =>
        /\ req.pc = "raised"
        /\ req.result = ClientError(IF req.body = "rejected_msg"
                                    THEN "api_message" ELSE "fallback")
        /\ req.script[req.attempt] = "ok"
        /\ req.script[1] = "ok" => (req.attempt = 1 /\ req.sleeps = 0)

C13_Witness ==
    /\ req.body = "rejected_nomsg"
    /\ req.result = ClientError("fallback")
    /\ req.attempt = 1 /\ req.pc = "raised"

\* C14: an attempt that ended with a non-2xx status (the transport's status
\* retry exhausted on 429/500/502/503/504, or another status such as 404)
\* is the last attempt of the call, and the call has raised.
C14_StatusIsHardFailure ==
    \A i \in 1..req.attempt :
        (req.script[i] \in StatusFailures /\ (i < req.attempt \/ req.pc # "attempt")) =>
            (req.pc = "raised" /\ req.attempt = i)

\* ------------------------------------------------------ store claims
\* C15: a save that fails after it has started writing leaves the store
\* intact: the record a load returned before the save is what the next load
\* returns, and the save returned False.
C15_FailedSaveKeepsRecord ==
    (store.pc = "loaded" /\ store.outcome = "fail_after_open" /\ store.before.some) =>
        (store.loaded = store.before /\ ~store.ret)

\* C16: when the file is missing or cannot be read, parsed or validated,
\* the tick's load returns None without raising (the tick goes on to the
\* comparison), and the tick does what it does for a record of the room
\* with live = false: same save, same notification, same warning.
C16_AbsentIsOffline ==
    [][\A t \in Tasks :
          (/\ IsHead(TaskEntry(t)) /\ pc[t] = "fetch" /\ wait[t] = "done"
           /\ fut[t].kind = "dict" /\ file.kind \in {"absent", "corrupt"}
           /\ tick'.phase = "compared")
          => LET room_info == ConvertToRoomInfo(fut[t])
                 c == Compare(room_info, Some(room_info.room_id, FALSE), call_back)
             IN  /\ tick'.prev = "absent"
                 /\ (tick'.save # "none") = c.save
                 /\ tick'.savedLive = (c.save /\ c.status.live_status)
                 /\ tick'.emitted = (IF c.event = "none" THEN <<>> ELSE <<c.event>>)
                 /\ tick'.warned = c.warn
                 /\ (~c.save => file' = file)]_vars

C16_Witness ==
    /\ Compared /\ tick.prev = "absent" /\ tick.cur = "offline"
    /\ tick.save = "none" /\ tick.emitted = <<>>
    /\ file = CorruptFile

\* C17: a status saved successfully is the status the next load returns,
\* for every room id (negative and multi-digit included) and both flags.
C17_RoundTrip ==
    (store.pc = "loaded" /\ store.outcome = "ok") =>
        /\ store.ret
        /\ store.loaded = Some(store.status.room_id, store.status.live_status)

C17_Witness ==
    /\ store.pc = "loaded" /\ store.outcome = "ok"
    /\ store.status.room_id = 0 - MaxStoredRoomId /\ store.status.live_status
    /\ store.loaded.some /\ store.loaded.live_status
    /\ ~store.before.some

HasRecord == LoadFromJson(file).some

\* C18 as stated: once a tick has fetched a snapshot (and any save it made
\* succeeded), a persisted record exists, whatever the fetched flag.
C18_RecordAfterFirstPoll ==
    (Compared /\ tick.save \in {"none", "ok"}) => HasRecord

\* C18 amended: once a tick has fetched live = true (and any save it made
\* succeeded), a record with live = true exists; a tick that fetches
\* live = false while no record can be loaded calls no save and leaves the
\* store without a record.
C18_RecordAfterLivePoll ==
    /\ (Compared /\ tick.cur = "live" /\ tick.save \in {"none", "ok"}) =>
          (HasRecord /\ FileLive)
    /\ (Compared /\ tick.cur = "offline" /\ tick.prev = "absent") =>
          (tick.save = "none" /\ ~HasRecord)

C18_Witness ==
    /\ Compared /\ tick.first /\ tick.cur = "offline" /\ tick.prev = "absent"
    /\ file = AbsentFile /\ tick.end # "running"

\* ------------------------------------------------------ normalizer claims
\* C19: the normalizer never raises: for every raw value, a non-dict
\* included, it returns a snapshot.
C19_NeverFails == norm.pc # "raised"

\* C20: every numeric field of a returned snapshot is a non-negative
\* integer, whatever the payload delivered.
C20_NonNegative ==
    norm.pc = "returned" => \A f \in NumericNames : norm.info.nums[f] >= 0

\* ------------------------------------------------------ tick frame claims
\* C21: the step of a tick that receives an ApiClientError or empty data
\* from the fetch leaves the file as it is, calls no save, awaits no
\* callback (so no LIVE_END) and ends the tick.
C21_FailedFetchIsNotOffline ==
    [][\A t \in Tasks :
          (/\ IsHead(TaskEntry(t)) /\ pc[t] = "fetch" /\ wait[t] = "done"
           /\ fut[t].kind \in {"error", "empty"}
           /\ tick.phase = "fetch"
           /\ tick'.phase \in {"fetch_failed", "empty", "compared"})
          => /\ file' = file
             /\ pc'[t] \in {"sleep", "sleep_retry"}
             /\ tick'.phase # "compared"
             /\ tick'.emitted = <<>>
             /\ tick'.save = "none"]_vars

C21_Witness ==
    /\ tick.phase = "empty" /\ tick.end = "returned" /\ ~tick.first
    /\ FileLive /\ call_back
    /\ tick.emitted = <<>> /\ tick.save = "none"

FileFlag == IF FileLive THEN "live" ELSE IF FileOffline THEN "offline" ELSE "none"

\* C22: whenever a transition tick has awaited its callback, save was called
\* before, and when that save succeeded the file holds the new flag, while
\* the callback runs and after it has raised or been cancelled; a later
\* tick that observes the same flag after such a failed callback awaits no
\* callback and writes nothing.
C22_SavedBeforeCallback ==
    /\ (Compared /\ tick.emitted # <<>>) =>
          /\ tick.save # "none"
          /\ tick.save = "ok" => FileFlag = FlagOf(tick.emitted[1])
    /\ (Compared /\ tick.repeat) =>
          /\ tick.emitted = <<>> /\ tick.save = "none"
          /\ FileFlag = FlagOf(tick.unacked)

\* stop() cancelled the LIVE_START callback, the loop was started again and
\* its first tick sees the room live.
C22_Witness ==
    /\ Compared /\ tick.repeat /\ tick.first
    /\ tick.unacked = "LIVE_START" /\ tick.cur = "live"
    /\ call_back /\ tick.emitted = <<>> /\ FileLive

SaveFailed == tick.save \in {"fail_before_open", "fail_after_open"}

\* C23: when the save of a detected transition returns False the tick still
\* awaits the registered callback and the record that loads from the file
\* is the one the tick loaded; every later tick that observes the same flag,
\* no save having succeeded in between, calls save again and awaits the
\* callback with the same event again.
C23_FailedSaveRenotifies ==
    /\ (Compared /\ SaveFailed) =>
          /\ tick.hadCb => tick.emitted # <<>>
          /\ PrevOf(LoadFromJson(file)) = tick.prev
    /\ (Compared /\ tick.again # "none") =>
          /\ tick.save # "none"
          /\ tick.hadCb => tick.emitted = <<tick.again>>

\* ------------------------------------------------------ shutdown claims
\* C24: once stop() has returned, the call of the cancelled tick issues no
\* further request attempt: the attempt number stays what it was.
C24_NoAttemptAfterStop ==
    req.caller = "stopped" => req.attempt = req.attemptAtStop

\* ------------------------------------------------------ init claims
\* C25: init_plugin calls start() first and registerCallback() second, and
\* still no tick begins in between: while init_plugin stands between the
\* two calls the task start() created has not run its first step (or, the
\* loop running already, an earlier init_plugin has set the callback), and
\* every tick that reaches the comparison finds the callback set, so a
\* detected transition is always notified and never meets the
\* unset-callback branch.
C25_CallbackSetBeforeFirstTick ==
    /\ initPc = "started" =>
          (running /\ task # NoTask /\ (pc[task] = "new" \/ call_back))
    /\ Compared => tick.hadCb
    /\ (Compared /\ tick.save # "none") => (tick.emitted # <<>> /\ ~tick.warned)

C25_Witness ==
    /\ initPc = "done" /\ ~restarted
    /\ Compared /\ tick.first /\ tick.hadCb
    /\ tick.prev = "absent" /\ tick.emitted = <<"LIVE_START">>

====
